---- MODULE Spec2Model ----
(***************************************************************************)
(* Model of src/src/index.js: the lazy pool / connection manager           *)
(* (createPool, getConnection, poolInfo), the query facade (query) and the *)
(* typed helpers insert, update, select, selectSingle and count.           *)
(*                                                                         *)
(* The module-level object `mariadb` carries the cached state              *)
(* (mariadb.config, mariadb.log, mariadb.pool, mariadb.connection).        *)
(* The driver (package mariadb) is the environment: it hands out pool and  *)
(* connection handles, may return no handle, may reject, and a connection  *)
(* may be lost at any time.  A handle id of 0 stands for null/undefined.   *)
(*                                                                         *)
(* Every async function is cut at its awaits: the code between two awaits  *)
(* runs atomically (single-threaded event loop), the continuation of an    *)
(* await is a separate step, so calls of different callers interleave.     *)
(***************************************************************************)
EXTENDS Integers, FiniteSets, Sequences, TLC

\* ---------------------------------------------------------------- bounds
MaxHandles == 2
MaxCalls == 3

\* two callers whose async calls may be in flight together
Callers == {1, 2}
Handles == 1..MaxHandles

\* ------------------------------------------------------- values of inputs
NoConfig == "noConfig"
\* a configuration is identified by its name; cfgA carries no logger,
\* cfgB carries a winston logger (config.logger)
Configs == {"cfgA", "cfgB"}
ConfigArgs == Configs \cup {NoConfig}

DriverErrors == {"driverErr1", "driverErr2"}
None == "none"

\* arguments of the typed helpers: a table name or none, a values object
\* (identified by the name it carries) or none, a where condition
\* ({name: ...}) or none
Tables == {"users", None}
Names == {"Ann", "Bob"}
ValueArgs == Names \cup {None}
WhereArgs == Names \cup {None}

VARIABLES
    config,          \* mariadb.config (NoConfig when unset)
    log,             \* mariadb.log    (None when unset)
    pool,            \* mariadb.pool   (0 when unset)
    connection,      \* mariadb.connection (0 when unset)
    hs,              \* driver side: state of every connection handle
    nh,              \* driver side: number of handles created so far
    pc,              \* per caller: position in its async call
    op,              \* per caller: the entry point it called
    conn,            \* per caller: query's local `connection`
    out,             \* per caller: outcome of its last completed call
    lg,              \* per caller: what its current call wrote to the logger
    calls,           \* number of entry-point calls made so far
    last,            \* the most recent entry-point call
    stmt,            \* per caller: what the query builder made of its call
    db,              \* server side: the rows (by name) of table users
    drv              \* driver call counters, the config last passed to the
                     \* driver, the first one ever passed, and what the
                     \* driver's last createPool/createConnection delivered

vars == <<config, log, pool, connection, hs, nh, pc, op, conn, out, lg,
          calls, last, stmt, db, drv>>

\* ------------------------------------------------------------ driver side
FreshHandleRec ==
    [origin |-> None, valid |-> FALSE, out |-> FALSE, canRel |-> FALSE,
     canEnd |-> FALSE, rel |-> 0, end |-> 0, busy |-> 0, acq |-> 0]

\* connection.isValid()
isValid(h) == hs[h].valid

\* connection.release(): a pooled handle goes back to its pool
DriverRelease(rec) ==
    [rec EXCEPT !.rel = @ + 1,
                !.out = IF rec.origin = "pool" THEN FALSE ELSE @]

\* connection.end(): closes a standalone connection; on a pooled handle the
\* driver aliases end to release
DriverEnd(rec) ==
    [rec EXCEPT !.end = @ + 1,
                !.out = IF rec.origin = "pool" THEN FALSE ELSE @,
                !.valid = IF rec.origin = "conn" THEN FALSE ELSE @]

\* ------------------------------------------------------------- outcomes
Ret(v) == [kind |-> "ret", val |-> v]
Throw(e) == [kind |-> "throw", val |-> e]
NoOutcome == [kind |-> None, val |-> None]
NoLog == [levels |-> {}, err |-> None]

\* config?.logger || console
LoggerOf(c) == IF c = "cfgB" THEN "winston" ELSE "console"

\* poolInfo(): one info line when a pool exists (lines 133-142)
poolInfo(p) == IF p # 0 THEN {"info"} ELSE {}

\* a statement as the query builder returns it: the arguments it was built
\* from, or the error the builder threw
NoStmt == [kind |-> None, table |-> None, field |-> None, values |-> None,
           where |-> None, err |-> None]

\* the statement string handed to query(sql) by a direct caller
RawStmt == [NoStmt EXCEPT !.kind = "raw"]

Init ==
    /\ config = NoConfig
    /\ log = None
    /\ pool = 0
    /\ connection = 0
    /\ hs = [h \in Handles |-> FreshHandleRec]
    /\ nh = 0
    /\ pc = [p \in Callers |-> "idle"]
    /\ op = [p \in Callers |-> None]
    /\ conn = [p \in Callers |-> 0]
    /\ out = [p \in Callers |-> NoOutcome]
    /\ lg = [p \in Callers |-> NoLog]
    /\ calls = 0
    /\ last = [p |-> 0, op |-> None, arg |-> NoConfig,
               table |-> None, values |-> None, where |-> None]
    /\ stmt = [p \in Callers |-> NoStmt]
    /\ db = {}
    /\ drv = [createPool |-> 0, createConnection |-> 0, poolGet |-> 0,
              exec |-> 0, cfg |-> NoConfig, first |-> NoConfig, res |-> None]

\* an entry point is called by an idle caller
Enter(p, o, a) ==
    /\ pc[p] = "idle"
    /\ calls < MaxCalls
    /\ calls' = calls + 1
    /\ last' = [p |-> p, op |-> o, arg |-> a,
                table |-> None, values |-> None, where |-> None]
    /\ op' = [op EXCEPT ![p] = o]
    /\ stmt' = [stmt EXCEPT ![p] = IF o = "query" THEN RawStmt ELSE NoStmt]

\* a handle the driver has just opened: a pooled handle has release and end,
\* a standalone connection has end only
NewHandle(o) ==
    [FreshHandleRec EXCEPT !.origin = o, !.valid = TRUE, !.out = (o = "pool"),
                           !.canRel = (o = "pool"), !.canEnd = TRUE,
                           !.acq = IF o = "pool" THEN 1 ELSE 0]

\* the driver is asked to create a pool or a connection from configuration c
DriverCreate(field, c) ==
    [drv EXCEPT ![field] = @ + 1, !.cfg = c,
                !.first = IF @ = NoConfig THEN c ELSE @]

\* --------------------------------------------------- createPool (43-67)
\* variant: the cached pool is not consulted
poolCachedNever == FALSE

\* line 44: if (mariadb.pool)
poolCached == pool # 0

\* variant: a missing argument fails although a configuration is cached
configMissingNoCache(cfg) == cfg = NoConfig

\* variant: the missing-configuration check is dropped
configMissingNever(cfg) == FALSE

\* lines 49-50 / 97-98: no argument and nothing cached
configMissing(cfg) == cfg = NoConfig /\ config = NoConfig

\* variant: the cached configuration is not substituted for a missing argument
resolveConfigArgOnly(cfg) == cfg

\* lines 49-55 / 97-103: the argument, else the cached configuration
resolveConfig(cfg) == IF cfg = NoConfig THEN config ELSE cfg

\* variant: the created handle is not checked
notCreatedNever(h) == FALSE

\* lines 62 / 110: if (!mariadb.pool), if (!mariadb.connection)
notCreated(h) == h = 0

\* what the driver's createPool(config) can do: return a new pool handle,
\* return nothing, or throw
DriverPoolResults == {"handle", "null"} \cup DriverErrors

createPool(p, cfg) ==
    /\ Enter(p, "createPool", cfg)
    /\ IF poolCached
       THEN /\ lg' = [lg EXCEPT ![p] = [levels |-> poolInfo(pool), err |-> None]]
            /\ out' = [out EXCEPT ![p] = Ret(pool)]
            /\ UNCHANGED <<config, log, pool, drv>>
       ELSE IF configMissing(cfg)
       THEN /\ lg' = [lg EXCEPT ![p] = NoLog]
            /\ out' = [out EXCEPT ![p] = Throw("ConfigurationMissing")]
            /\ UNCHANGED <<config, log, pool, drv>>
       ELSE /\ config' = resolveConfig(cfg)
            /\ log' = LoggerOf(config')
            /\ lg' = [lg EXCEPT ![p] = NoLog]
            /\ \E r \in DriverPoolResults :
                 /\ drv' = [DriverCreate("createPool", config') EXCEPT
                              !.res = IF r \in DriverErrors THEN "error" ELSE r]
                 /\ pool' = IF r = "handle" THEN drv.createPool + 1
                            ELSE IF r = "null" THEN 0 ELSE pool
                 /\ out' = [out EXCEPT ![p] =
                              IF r \in DriverErrors THEN Throw(r)
                              ELSE IF notCreated(pool')
                              THEN Throw("PoolCreationFailed")
                              ELSE Ret(pool')]
    /\ UNCHANGED <<connection, hs, nh, pc, conn, db>>

\* ----------------------------------------------- getConnection (86-115)
\* line 87: if (mariadb.pool && !mariadb.connection)
usePool == pool # 0 /\ connection = 0

\* variant: the cached handle is reused without asking isValid()
reuseCachedUnchecked == connection # 0

\* line 93: if (mariadb?.connection?.isValid())
reuseCached == connection # 0 /\ isValid(connection)

\* variant: the caller gets what was cached before the await
ReturnStale(p, o, h) ==
    IF o # "getConnection"
    THEN /\ pc' = [pc EXCEPT ![p] = "check"]
         /\ conn' = [conn EXCEPT ![p] = connection]
         /\ out' = [out EXCEPT ![p] = NoOutcome]
    ELSE /\ pc' = [pc EXCEPT ![p] = "idle"]
         /\ out' = [out EXCEPT ![p] = Ret(connection)]
         /\ UNCHANGED conn

\* getConnection hands h to its caller: query goes on to its validity check
\* (line 154) in a later turn of the event loop, a direct caller is done
Return(p, o, h) ==
    IF o # "getConnection"
    THEN /\ pc' = [pc EXCEPT ![p] = "check"]
         /\ conn' = [conn EXCEPT ![p] = h]
         /\ out' = [out EXCEPT ![p] = NoOutcome]
    ELSE /\ pc' = [pc EXCEPT ![p] = "idle"]
         /\ out' = [out EXCEPT ![p] = Ret(h)]
         /\ UNCHANGED conn

\* getConnection (or the caller awaiting it) fails with e
Fail(p, e) ==
    /\ pc' = [pc EXCEPT ![p] = "idle"]
    /\ out' = [out EXCEPT ![p] = Throw(e)]
    /\ UNCHANGED conn

\* lines 87-108, up to the first await
getConnectionBody(p, cfg, o) ==
    /\ lg' = [lg EXCEPT ![p] = NoLog]
    /\ UNCHANGED <<pool, connection, hs, nh, db>>
    /\ IF usePool
       THEN /\ pc' = [pc EXCEPT ![p] = "awaitPool"]
            /\ out' = [out EXCEPT ![p] = NoOutcome]
            /\ drv' = [drv EXCEPT !.poolGet = @ + 1]
            /\ UNCHANGED <<config, log, conn>>
       ELSE IF reuseCached
       THEN /\ Return(p, o, connection)
            /\ UNCHANGED <<config, log, drv>>
       ELSE IF configMissing(cfg)
       THEN /\ Fail(p, "ConfigurationMissing")
            /\ UNCHANGED <<config, log, drv>>
       ELSE /\ config' = resolveConfig(cfg)
            /\ log' = LoggerOf(config')
            /\ drv' = DriverCreate("createConnection", config')
            /\ pc' = [pc EXCEPT ![p] = "awaitCreate"]
            /\ out' = [out EXCEPT ![p] = NoOutcome]
            /\ UNCHANGED conn

getConnection(p, cfg) ==
    /\ Enter(p, "getConnection", cfg)
    /\ getConnectionBody(p, cfg, "getConnection")

\* lines 88-90: mariadb.pool.getConnection() settles.  The pool hands out a
\* handle it has just opened or one of its idle handles, or rejects.
poolGetConnectionSettles(p) ==
    /\ pc[p] = "awaitPool"
    /\ UNCHANGED <<config, log, pool, op, calls, last, stmt, db, drv>>
    /\ \/ \E h \in Handles :
            /\ \/ h = nh + 1 /\ nh' = nh + 1
                  /\ hs' = [hs EXCEPT ![h] = NewHandle("pool")]
               \/ h <= nh /\ hs[h].origin = "pool" /\ ~hs[h].out /\ hs[h].valid
                  /\ hs' = [hs EXCEPT ![h].out = TRUE, ![h].acq = @ + 1]
                  /\ UNCHANGED nh
            /\ connection' = h
            /\ lg' = [lg EXCEPT ![p].levels = @ \cup poolInfo(pool)]
            /\ Return(p, op[p], h)
       \/ \E e \in DriverErrors :
            /\ Fail(p, e)
            /\ UNCHANGED <<connection, hs, nh, lg>>

\* lines 108-114: mariadb.createConnection(config) settles with a new
\* connection, with nothing, or rejects
createConnectionSettles(p) ==
    /\ pc[p] = "awaitCreate"
    /\ UNCHANGED <<config, log, pool, op, calls, last, stmt, db, lg>>
    /\ \/ /\ nh < MaxHandles
          /\ nh' = nh + 1
          /\ hs' = [hs EXCEPT ![nh + 1] = NewHandle("conn")]
          /\ connection' = nh + 1
          /\ drv' = [drv EXCEPT !.res = "handle"]
          /\ Return(p, op[p], nh + 1)
       \/ /\ connection' = 0
          /\ drv' = [drv EXCEPT !.res = "null"]
          /\ IF notCreated(connection')
             THEN Fail(p, "ConnectionCreationFailed")
             ELSE Return(p, op[p], connection')
          /\ UNCHANGED <<hs, nh>>
       \/ \E e \in DriverErrors :
            /\ drv' = [drv EXCEPT !.res = "error"]
            /\ Fail(p, e)
            /\ UNCHANGED <<connection, hs, nh>>

\* ------------------------------------------------------- query (151-168)
\* line 152: const connection = await getConnection()
query(p) ==
    /\ Enter(p, "query", NoConfig)
    /\ getConnectionBody(p, NoConfig, "query")

\* variant: only an absent handle is refused
noConnectionAbsentOnly(h) == h = 0

\* line 154: if (!connection || !connection.isValid())
noConnection(h) == h = 0 \/ ~isValid(h)

\* lines 154-160: the validity check, the debug line and the dispatch of the
\* statement on the handle
queryDispatch(p) ==
    /\ pc[p] = "check"
    /\ UNCHANGED <<config, log, pool, connection, nh, op, conn, calls, last,
                   stmt, db>>
    /\ IF noConnection(conn[p])
       THEN /\ pc' = [pc EXCEPT ![p] = "idle"]
            /\ out' = [out EXCEPT ![p] = Throw("NoConnection")]
            /\ UNCHANGED <<hs, drv, lg>>
       ELSE /\ pc' = [pc EXCEPT ![p] = "awaitExec"]
            /\ lg' = [lg EXCEPT ![p].levels = @ \cup {"debug"}]
            /\ hs' = [hs EXCEPT ![conn[p]].busy = @ + 1]
            /\ drv' = [drv EXCEPT !.exec = @ + 1]
            /\ UNCHANGED out

\* variant: the finally block releases but does not end
cleanupReleaseOnly(rec) == IF rec.canRel THEN DriverRelease(rec) ELSE rec

\* lines 164-167: finally { release && release(); end && end() }
cleanup(rec) ==
    LET a == IF rec.canRel THEN DriverRelease(rec) ELSE rec
    IN  IF a.canEnd THEN DriverEnd(a) ELSE a

\* variant: the catch block throws an error of its own
rethrowOther(e) == "driverErr1"

\* lines 161-163: catch (error) { log.error(...); throw error }
rethrow(e) == e

\* ------------------------------------------------- server side of a query
\* the rows of table users a where condition selects
Match(s, d) == IF s.where = None THEN d ELSE d \cap {s.where}

\* the orders in which a set of rows can come back
RowOrders(S) ==
    {q \in [1..Cardinality(S) -> S] : \A i, j \in DOMAIN q : q[i] = q[j] => i = j}

\* a row of an aggregate result: its count column, if it has one
CountRow(has, n) == [hasCount |-> has, count |-> n]

\* COUNT(*) marks the aggregate select of count (line 21)
CountField == "COUNT(*) AS count"

\* what connection.query(sql) can resolve with.  A select yields the matching
\* rows; the aggregate select yields one row with the count, and, from a
\* driver that answers differently, no row or a row without that column.
DriverResults(s, d) ==
    IF s.kind = "select" /\ s.field = CountField
    THEN {<<CountRow(TRUE, Cardinality(Match(s, d)))>>,
          <<CountRow(FALSE, 0)>>, <<>>}
    ELSE IF s.kind = "select" THEN RowOrders(Match(s, d))
    ELSE IF s.kind \in {"insert", "update"} THEN {"ok"}
    ELSE {"rows"}

\* the table after the statement was executed
DriverApply(s, d) ==
    IF s.kind = "insert" THEN d \cup {s.values}
    ELSE IF s.kind = "update" /\ s.where \in d
    THEN (d \ {s.where}) \cup {s.values}
    ELSE d

\* helpers that go on with the rows after `await query(...)` (lines 21, 280)
PostOps == {"count", "selectSingle"}

\* lines 160-167: connection.query(sql) settles with rows or with an error
queryExecSettles(p) ==
    /\ pc[p] = "awaitExec"
    /\ UNCHANGED <<config, log, pool, connection, nh, op, conn, calls, last,
                   stmt, drv>>
    /\ hs' = [hs EXCEPT ![conn[p]] = cleanup([@ EXCEPT !.busy = @ - 1])]
    /\ \/ /\ \E r \in DriverResults(stmt[p], db) :
                out' = [out EXCEPT ![p] = Ret(r)]
          /\ db' = DriverApply(stmt[p], db)
          /\ pc' = [pc EXCEPT ![p] = IF op[p] \in PostOps THEN "post"
                                     ELSE "idle"]
          /\ UNCHANGED lg
       \/ \E e \in DriverErrors :
            /\ lg' = [lg EXCEPT ![p] = [levels |-> @.levels \cup {"error"},
                                        err |-> e]]
            /\ out' = [out EXCEPT ![p] = Throw(rethrow(e))]
            /\ pc' = [pc EXCEPT ![p] = "idle"]
            /\ UNCHANGED db

\* ---------------------------------------------- query builder (ab-dbquery)
BuilderError(e) == [NoStmt EXCEPT !.kind = "error", !.err = e]

\* queryInsert(table, values): throws without a table or without values
\* (lines 122-123)
queryInsert(t, v) ==
    IF t = None THEN BuilderError("MissingTableName")
    ELSE IF v = None THEN BuilderError("MissingValues")
    ELSE [NoStmt EXCEPT !.kind = "insert", !.table = t, !.values = v]

\* queryUpdate(table, values, where): throws without a table, values or where
\* (lines 290-292)
queryUpdate(t, v, w) ==
    IF t = None THEN BuilderError("MissingTableName")
    ELSE IF v = None THEN BuilderError("MissingValues")
    ELSE IF w = None THEN BuilderError("MissingWhereClause")
    ELSE [NoStmt EXCEPT !.kind = "update", !.table = t, !.values = v,
                        !.where = w]

\* querySelect(table, field, where): throws without a table (lines 17, 179)
querySelect(t, f, w) ==
    IF t = None THEN BuilderError("MissingTableName")
    ELSE [NoStmt EXCEPT !.kind = "select", !.table = t, !.field = f,
                        !.where = w]

\* ------------------------------------------------------------ typed helpers
\* variant: query is entered although the builder threw
rejectedNever(s) == FALSE

\* the builder call is the argument of query(...): when it throws, the helper
\* rejects before query is entered (lines 127, 183, 280, 296)
rejected(s) == s.kind = "error"

\* a helper is called with table t, values v and where w, and the builder
\* makes s of them; query(s) then starts with getConnection()
helper(p, o, t, v, w, s) ==
    /\ pc[p] = "idle"
    /\ calls < MaxCalls
    /\ calls' = calls + 1
    /\ last' = [p |-> p, op |-> o, arg |-> NoConfig,
                table |-> t, values |-> v, where |-> w]
    /\ op' = [op EXCEPT ![p] = o]
    /\ stmt' = [stmt EXCEPT ![p] = s]
    /\ IF rejected(s)
       THEN /\ out' = [out EXCEPT ![p] = Throw(s.err)]
            /\ lg' = [lg EXCEPT ![p] = NoLog]
            /\ UNCHANGED <<config, log, pool, connection, hs, nh, pc, conn,
                           db, drv>>
       ELSE getConnectionBody(p, NoConfig, o)

\* lines 126-128
insert(p, t, v) == helper(p, "insert", t, v, None, queryInsert(t, v))

\* lines 295-297
update(p, t, v, w) == helper(p, "update", t, v, w, queryUpdate(t, v, w))

\* lines 182-184 (field, order and limit left at their defaults)
select(p, t, w) == helper(p, "select", t, None, w, querySelect(t, None, w))

\* lines 279-280
selectSingle(p, t, w) ==
    helper(p, "selectSingle", t, None, w, querySelect(t, None, w))

\* lines 20-21: querySelect(table, `COUNT(*) AS count`), where is not passed
count(p, t, w) ==
    helper(p, "count", t, None, w, querySelect(t, CountField, None))

\* line 22: return rows[0].count || 0
countResult(rows) ==
    IF Len(rows) = 0 THEN Throw("TypeError")
    ELSE IF ~rows[1].hasCount \/ rows[1].count = 0 THEN Ret(0)
    ELSE Ret(rows[1].count)

\* variant: the index is off by one
selectSingleSecond(rows) ==
    IF Len(rows) < 2 THEN Ret("null") ELSE Ret(rows[2])

\* line 281: return rows[0] || null
selectSingleResult(rows) ==
    IF Len(rows) = 0 THEN Ret("null") ELSE Ret(rows[1])

\* lines 22, 281: count / selectSingle go on with the rows query resolved with
helperReturns(p) ==
    /\ pc[p] = "post"
    /\ pc' = [pc EXCEPT ![p] = "idle"]
    /\ out' = [out EXCEPT ![p] = IF op[p] = "count"
                                 THEN countResult(out[p].val)
                                 ELSE selectSingleResult(out[p].val)]
    /\ UNCHANGED <<config, log, pool, connection, hs, nh, op, conn, lg, calls,
                   last, stmt, db, drv>>

\* ------------------------------------------------------------ environment
\* the session behind a handle is lost (server or network)
connectionLost(h) ==
    /\ h <= nh
    /\ hs[h].valid
    /\ hs' = [hs EXCEPT ![h].valid = FALSE]
    /\ UNCHANGED <<config, log, pool, connection, nh, pc, op, conn, out, lg,
                   calls, last, stmt, db, drv>>

Next ==
    \/ \E p \in Callers, cfg \in ConfigArgs : createPool(p, cfg)
    \/ \E p \in Callers, cfg \in ConfigArgs : getConnection(p, cfg)
    \/ \E p \in Callers : query(p)
    \/ \E p \in Callers : poolGetConnectionSettles(p)
    \/ \E p \in Callers : createConnectionSettles(p)
    \/ \E p \in Callers : queryDispatch(p)
    \/ \E p \in Callers : queryExecSettles(p)
    \/ \E h \in Handles : connectionLost(h)

Spec == Init /\ [][Next]_vars

\* the typed helpers on top of the lifecycle manager, called one after
\* another by one caller
HelperCallers == {1}

HelperNext ==
    \/ \E p \in HelperCallers, cfg \in ConfigArgs : createPool(p, cfg)
    \/ \E p \in HelperCallers, t \in Tables, v \in ValueArgs : insert(p, t, v)
    \/ \E p \in HelperCallers, t \in Tables, v \in ValueArgs, w \in WhereArgs :
           update(p, t, v, w)
    \/ \E p \in HelperCallers, t \in Tables, w \in WhereArgs : select(p, t, w)
    \/ \E p \in HelperCallers, t \in Tables, w \in WhereArgs : selectSingle(p, t, w)
    \/ \E p \in HelperCallers, t \in Tables, w \in WhereArgs : count(p, t, w)
    \/ \E p \in HelperCallers : poolGetConnectionSettles(p)
    \/ \E p \in HelperCallers : createConnectionSettles(p)
    \/ \E p \in HelperCallers : queryDispatch(p)
    \/ \E p \in HelperCallers : queryExecSettles(p)
    \/ \E p \in HelperCallers : helperReturns(p)
    \/ \E h \in Handles : connectionLost(h)

HelperSpec == Init /\ [][HelperNext]_vars

\* ====================================================== checked properties
\* the step is an entry-point call
IsCall == calls' # calls

\* C1: once a pool handle exists it is never replaced, the driver's createPool
\* is not invoked again (the pool is the product of the last invocation), and
\* every createPool call returns that same handle.
C1_IdempotentCreatePool ==
    [][pool # 0 =>
         /\ pool' = pool
         /\ drv.createPool = pool
         /\ drv'.createPool = drv.createPool
         /\ (IsCall /\ last'.op = "createPool"
               => out'[last'.p] = Ret(pool))]_vars

\* a createPool call found the pool cached (it logged the pool statistics)
\* and returned it, after a single driver createPool
C1_Witness ==
    \E p \in Callers :
        /\ op[p] = "createPool" /\ pool # 0 /\ out[p] = Ret(pool)
        /\ "info" \in lg[p].levels
        /\ drv.createPool = 1

\* C2 (as claimed): while a pool handle exists the driver's createConnection
\* is never invoked, and a getConnection call that returns at once returns a
\* handle that came from the pool.
C2_PoolPreferred ==
    [][pool # 0 =>
         /\ drv'.createConnection = drv.createConnection
         /\ (IsCall /\ last'.op = "getConnection"
                    /\ out'[last'.p].kind = "ret"
               => hs'[out'[last'.p].val].origin = "pool")]_vars

\* C3 (as claimed): a pool handle and a cached ad-hoc connection handle are
\* never held together.
C3_AtMostOneResource ==
    ~(pool # 0 /\ connection # 0 /\ hs[connection].origin = "conn")

\* C4 (as claimed): on every exit path of query that has obtained a handle,
\* release and end have each been invoked exactly once on it (if supported).
C4_CleanupOnEveryExit ==
    [][\A p \in Callers :
         (op[p] = "query" /\ pc[p] \in {"check", "awaitExec"}
            /\ pc'[p] = "idle" /\ conn[p] # 0)
         => /\ hs'[conn[p]].rel =
                 hs[conn[p]].rel + (IF hs[conn[p]].canRel THEN 1 ELSE 0)
            /\ hs'[conn[p]].end =
                 hs[conn[p]].end + (IF hs[conn[p]].canEnd THEN 1 ELSE 0)]_vars

\* C5 (as claimed): a cached configuration never changes, and every creation
\* passes the first cached configuration to the driver.
C5_ConfigImmutable ==
    [][/\ (config # NoConfig => config' = config)
       /\ drv'.cfg = drv'.first]_vars

\* C5 (amended): a cached configuration is replaced only by a createPool or
\* getConnection call that is given a configuration and goes on to ask the
\* driver for a pool or connection; it then caches its argument.  A call
\* given no configuration never changes the cache, and every creation passes
\* the configuration cached by that call to the driver.
C5_ConfigReplacedOnlyByArgument ==
    [][/\ (config # NoConfig /\ config' # config =>
             /\ IsCall
             /\ last'.op \in {"createPool", "getConnection"}
             /\ last'.arg # NoConfig
             /\ config' = last'.arg
             /\ drv'.createPool + drv'.createConnection
                  = drv.createPool + drv.createConnection + 1)
       /\ (IsCall /\ last'.arg = NoConfig => config' = config)
       /\ (drv'.createPool # drv.createPool
             \/ drv'.createConnection # drv.createConnection
           => drv'.cfg = config' /\ config' # NoConfig)]_vars

\* the cached configuration was replaced: the driver first got cfgA, and a
\* later call without argument made it create from the newer cfgB
C5_Witness ==
    /\ drv.first = "cfgA" /\ config = "cfgB" /\ drv.cfg = "cfgB"
    /\ last.arg = NoConfig /\ pc[last.p] = "awaitCreate"

\* C6: with no pool, a getConnection call that finds the cached handle valid
\* returns that handle without any driver call; one that finds it invalid
\* asks the driver for a connection, and the handle the driver then delivers
\* is new, is cached and is returned.
C6_ConnectionReuse ==
    [][\A p \in Callers :
         /\ (IsCall /\ last'.p = p /\ last'.op = "getConnection"
               /\ pool = 0 /\ connection # 0)
            => IF hs[connection].valid
               THEN /\ out'[p] = Ret(connection)
                    /\ drv' = drv /\ connection' = connection
               ELSE /\ drv'.createConnection = drv.createConnection + 1
                    /\ pc'[p] = "awaitCreate"
         /\ (op[p] = "getConnection" /\ pc[p] = "awaitCreate"
               /\ pc'[p] = "idle" /\ out'[p].kind = "ret")
            => /\ out'[p].val = connection'
               /\ connection' = nh' /\ nh' = nh + 1
               /\ hs'[connection'].valid]_vars

\* the first handle became invalid, a second was created, cached and
\* returned, and the next call returned that identical handle without a
\* third creation
C6_Witness ==
    /\ pool = 0 /\ drv.createConnection = 2
    /\ connection = 2 /\ ~hs[1].valid /\ hs[2].valid
    /\ \A p \in Callers : op[p] = "getConnection" /\ out[p] = Ret(2)

\* C7: a completed successful createPool/getConnection implies a cached
\* configuration; with a configuration cached, getConnection without
\* argument never fails with ConfigurationMissing, leaves the cache as it is
\* and passes the cached configuration to the driver if it creates.
C7_ConfigCaching ==
    [][/\ ((\E q \in Callers : op[q] \in {"createPool", "getConnection"}
                               /\ out[q].kind = "ret")
             => config # NoConfig)
       /\ (config # NoConfig /\ IsCall
             /\ last'.op = "getConnection" /\ last'.arg = NoConfig
           => /\ out'[last'.p] # Throw("ConfigurationMissing")
              /\ config' = config
              /\ (drv'.createConnection # drv.createConnection
                    => drv'.cfg = config))]_vars

\* after an earlier creation, a getConnection() without argument is waiting
\* for a connection the driver creates from the cached configuration
C7_Witness ==
    /\ last.op = "getConnection" /\ last.arg = NoConfig
    /\ pc[last.p] = "awaitCreate"
    /\ config # NoConfig /\ drv.cfg = config
    /\ \E q \in Callers : q # last.p /\ out[q].kind = "ret"
                          /\ op[q] \in {"createPool", "getConnection"}

\* C8: with nothing cached there is no pool and no cached connection, and a
\* createPool or getConnection call without argument fails with
\* ConfigurationMissing without any driver call and without caching anything.
C8_ConfigurationMissing ==
    [][config = NoConfig =>
         /\ pool = 0 /\ connection = 0
         /\ (IsCall /\ last'.op \in {"createPool", "getConnection"}
               /\ last'.arg = NoConfig
             => /\ out'[last'.p] = Throw("ConfigurationMissing")
                /\ pc'[last'.p] = "idle"
                /\ drv' = drv
                /\ config' = NoConfig /\ pool' = 0 /\ connection' = 0)]_vars

\* both entry points have failed with ConfigurationMissing, driver untouched
C8_Witness ==
    /\ \E p \in Callers : op[p] = "createPool"
                          /\ out[p] = Throw("ConfigurationMissing")
    /\ \E p \in Callers : op[p] = "getConnection"
                          /\ out[p] = Throw("ConfigurationMissing")
    /\ drv.createPool = 0 /\ drv.createConnection = 0

\* C9 (as claimed): while a pool handle exists every getConnection call
\* (direct or from query) asks the pool for a connection.
C9_AlwaysReacquire ==
    [][(pool # 0 /\ IsCall /\ last'.op \in {"getConnection", "query"})
         => drv'.poolGet = drv.poolGet + 1]_vars

\* C10: when the statement execution fails, query logs that error at error
\* level and rejects with the very same error, without executing anything
\* again and after release/end were invoked on the handle.
C10_ErrorPropagated ==
    [][\A p \in Callers :
         (pc[p] = "awaitExec" /\ pc'[p] = "idle" /\ out'[p].kind = "throw")
         => /\ "error" \in lg'[p].levels
            /\ out'[p].val \in DriverErrors
            /\ out'[p].val = lg'[p].err
            /\ drv'.exec = drv.exec
            /\ hs'[conn[p]].end = hs[conn[p]].end + 1
            /\ hs'[conn[p]].rel =
                 hs[conn[p]].rel + (IF hs[conn[p]].canRel THEN 1 ELSE 0)]_vars

\* a query was rejected with the driver's second error, logged and cleaned up
C10_Witness ==
    \E p \in Callers :
        /\ op[p] = "query" /\ pc[p] = "idle"
        /\ out[p] = Throw("driverErr2") /\ lg[p].err = "driverErr2"
        /\ "error" \in lg[p].levels
        /\ hs[conn[p]].end >= 1

HelperOps == {"insert", "update", "select", "selectSingle", "count"}

\* the builder's errors
BuilderErrors == {"MissingTableName", "MissingValues", "MissingWhereClause"}

\* the call just made lacks an argument its builder requires
BadArguments ==
    /\ last'.op \in HelperOps
    /\ \/ last'.table = None
       \/ last'.op \in {"insert", "update"} /\ last'.values = None
       \/ last'.op = "update" /\ last'.where = None

\* C12: a helper whose arguments the query builder rejects fails with the
\* builder's error in the call itself: getConnection is not entered, nothing
\* is asked of the pool or the driver, and the cached configuration, logger,
\* pool and connection are unchanged.
C12_BuilderRejects ==
    [][(IsCall /\ BadArguments) =>
         /\ out'[last'.p].kind = "throw"
         /\ out'[last'.p].val \in BuilderErrors
         /\ out'[last'.p].val = stmt'[last'.p].err
         /\ (last'.op = "insert" /\ last'.table # None
               => out'[last'.p].val = "MissingValues")
         /\ (last'.op = "update" /\ last'.table # None /\ last'.values # None
               => out'[last'.p].val = "MissingWhereClause")
         /\ pc'[last'.p] = "idle"
         /\ UNCHANGED <<config, log, pool, connection, hs, nh, db, drv>>]_vars

\* with a pool at hand, insert('users', undefined) failed with the builder's
\* error and the pool was not asked for a connection
C12_Witness ==
    /\ last.op = "insert" /\ last.table = "users" /\ last.values = None
    /\ out[last.p] = Throw("MissingValues")
    /\ pool # 0 /\ drv.poolGet = 0 /\ drv.exec = 0

\* C13 (as claimed): the statement count executes is the COUNT select on the
\* table restricted by the where condition it was called with.
C13_CountUsesWhere ==
    (last.op = "count" /\ pc[last.p] = "awaitExec")
      => /\ stmt[last.p].kind = "select"
         /\ stmt[last.p].field = CountField
         /\ stmt[last.p].table = last.table
         /\ stmt[last.p].where = last.where

\* C14 (as claimed): count returns the count of the first row, and 0 when
\* the result has no count value or no row.
C14_CountDefaultsToZero ==
    [][\A p \in Callers :
         (op[p] = "count" /\ pc[p] = "post" /\ pc'[p] = "idle")
         => /\ out'[p].kind = "ret"
            /\ out'[p].val =
                 IF Len(out[p].val) > 0 /\ out[p].val[1].hasCount
                 THEN out[p].val[1].count ELSE 0]_vars

\* C16: with a pool created, no helper call fails with ConfigurationMissing,
\* and none fails with NoConnection unless the handle it obtained is invalid;
\* an insert that succeeds has added its row, and a selectSingle for a name
\* that returns gives back that row if the table holds it, else null.
C16_EndToEnd ==
    [][\A p \in HelperCallers :
         /\ (pool # 0 /\ op'[p] \in HelperOps /\ out'[p].kind = "throw")
              => out'[p].val # "ConfigurationMissing"
         /\ (pc[p] = "check" /\ pc'[p] = "idle")
              => (conn[p] # 0 /\ ~hs[conn[p]].valid)
         /\ (op[p] = "insert" /\ pc[p] = "awaitExec" /\ out'[p].kind = "ret")
              => stmt[p].values \in db'
         /\ (op'[p] = "selectSingle" /\ pc'[p] = "idle"
               /\ out'[p].kind = "ret" /\ last'.where # None)
              => out'[p].val = IF last'.where \in db' THEN last'.where
                               ELSE "null"]_vars

\* createPool, insert of Ann, selectSingle for Ann: the row came back, both
\* statements were executed
C16_Witness ==
    /\ pool # 0 /\ calls = 3 /\ drv.exec = 2 /\ db = {"Ann"}
    /\ op[1] = "selectSingle" /\ pc[1] = "idle"
    /\ last.where = "Ann" /\ out[1].kind = "ret" /\ out[1].val = "Ann"

\* ------------------------------------------ query and the cache (Spec)
\* C15: at its check query dispatches the statement only on a handle that is
\* present and reports itself valid; otherwise it fails with NoConnection
\* and the driver's statement execution is not called.
C15_NoDispatchWithoutConnection ==
    [][/\ \A p \in Callers :
            (pc[p] = "check" /\ pc'[p] # "check") =>
               IF conn[p] = 0 \/ ~hs[conn[p]].valid
               THEN /\ out'[p] = Throw("NoConnection")
                    /\ pc'[p] = "idle"
                    /\ drv'.exec = drv.exec
                    /\ hs' = hs
               ELSE /\ pc'[p] = "awaitExec"
                    /\ drv'.exec = drv.exec + 1
                    /\ hs'[conn[p]].busy = hs[conn[p]].busy + 1
       /\ (drv'.exec # drv.exec =>
             \E p \in Callers : /\ pc[p] = "check" /\ conn[p] # 0
                                /\ hs[conn[p]].valid)]_vars

\* a query obtained a handle, found it invalid and failed with NoConnection
\* without any statement having been executed
C15_Witness ==
    \E p \in Callers :
        /\ op[p] = "query" /\ pc[p] = "idle"
        /\ out[p].kind = "throw" /\ out[p].val = "NoConnection"
        /\ conn[p] # 0 /\ ~hs[conn[p]].valid
        /\ drv.exec = 0

\* the handle a settling getConnection delivers to its caller
Delivered(p) == IF pc'[p] = "check" THEN conn'[p] ELSE out'[p].val

\* C17: every getConnection that its driver call settles with a handle gives
\* its caller that very handle and overwrites the cache with it, whatever
\* another call cached meanwhile: a created connection is a new one, a pooled
\* one was not checked out before.  (That two calls in flight each get a
\* resource of their own is the witness.)
C17_RacyLazyInit ==
    [][\A p \in Callers :
         (pc[p] \in {"awaitPool", "awaitCreate"}
            /\ (pc'[p] = "check" \/ (pc'[p] = "idle" /\ out'[p].kind = "ret")))
         => /\ connection' = Delivered(p)
            /\ Delivered(p) # 0
            /\ hs'[Delivered(p)].valid
            /\ IF pc[p] = "awaitCreate"
               THEN /\ Delivered(p) = nh + 1 /\ nh' = nh + 1
                    /\ hs'[Delivered(p)].origin = "conn"
               ELSE /\ hs'[Delivered(p)].origin = "pool"
                    /\ hs'[Delivered(p)].out
                    /\ (Delivered(p) <= nh => ~hs[Delivered(p)].out)]_vars

\* two getConnection calls raced: each got a connection of its own, both are
\* still open, and the cache holds only one of them
C17_Witness ==
    /\ pool = 0 /\ drv.createConnection = 2 /\ nh = 2
    /\ \A h \in {1, 2} : hs[h].origin = "conn" /\ hs[h].valid /\ hs[h].end = 0
    /\ \A p \in Callers : op[p] = "getConnection" /\ pc[p] = "idle"
                          /\ out[p].kind = "ret"
    /\ out[1].val # out[2].val
    /\ connection \in {out[1].val, out[2].val}

\* C18 (as claimed): no handle executes the statements of two query calls at
\* a time, and no handle is released or ended while a statement of another
\* query call is executing on it.
C18_ExclusiveUse ==
    [][/\ \A h \in Handles : hs[h].busy <= 1
       /\ \A p \in Callers :
            (pc[p] = "awaitExec" /\ pc'[p] # "awaitExec")
            => hs'[conn[p]].busy = 0]_vars

\* C19 (as claimed): a statement runs only on a pooled handle that is checked
\* out, and a pooled handle is not released more often than it was acquired.
C19_CheckedOutWhileExecuting ==
    \A h \in Handles :
        hs[h].origin = "pool"
          => /\ (hs[h].busy > 0 => hs[h].out)
             /\ hs[h].rel <= hs[h].acq

\* the step is a query call made while no other call is in flight
SequentialQueryCall ==
    /\ IsCall /\ last'.op = "query"
    /\ \A p \in Callers : pc[p] = "idle"

\* C20 (as claimed): with no pool every sequential query call that finds a
\* handle cached makes the driver create a fresh connection.
C20_EveryQueryCreates ==
    [][(SequentialQueryCall /\ pool = 0 /\ connection # 0)
         => drv'.createConnection = drv.createConnection + 1]_vars

\* C20 (amended): with no pool, a query that executed its statement ends the
\* connection it used and leaves that handle in the cache, invalid; every
\* later query call that finds such a handle cached makes the driver create
\* a fresh connection, while a query call that finds a valid handle cached
\* (one a direct getConnection call left there) uses it without creating.
C20_UsedHandleNeverReused ==
    [][/\ \A p \in Callers :
            (pool = 0 /\ pc[p] = "awaitExec" /\ pc'[p] # "awaitExec")
            => /\ connection' = connection
               /\ ~hs'[conn[p]].valid
               /\ hs'[conn[p]].end = hs[conn[p]].end + 1
       /\ \A h \in Handles :
            (hs[h].origin = "conn" /\ hs[h].end > 0) => ~hs[h].valid
       /\ (IsCall /\ last'.op = "query" /\ pool = 0 /\ connection # 0) =>
            IF hs[connection].valid
            THEN /\ drv'.createConnection = drv.createConnection
                 /\ pc'[last'.p] = "check"
                 /\ conn'[last'.p] = connection
            ELSE /\ drv'.createConnection = drv.createConnection + 1
                 /\ pc'[last'.p] = "awaitCreate"]_vars

\* two queries one after the other without a pool: the first one's handle
\* is still cached, ended, and the second has asked for a new connection
C20_Witness ==
    /\ pool = 0 /\ last.op = "query" /\ pc[last.p] = "awaitCreate"
    /\ connection # 0 /\ hs[connection].end = 1 /\ ~hs[connection].valid
    /\ drv.exec = 1 /\ drv.createConnection = 2
    /\ \A p \in Callers : p # last.p => pc[p] = "idle"

====
